---- MODULE Spec2Model ----
(***************************************************************************)
(* Model of the contacts CLI: the People-API helpers of bin/contacts.js    *)
(* (listContacts, objectCleaner, processContact, batchCreateContacts) and  *)
(* bin/contact-groups.js (listContactGroups), and the command actions that *)
(* call them: contacts export, contacts import, contacts clean,            *)
(* contact-groups list and utils summarize-data.                           *)
(*                                                                         *)
(* JSON values are modelled as records of one shape,                       *)
(*     [tp, s, kv]                                                         *)
(* tp is the kind of the value ("object", "array", "string", "null",       *)
(* "undefined"), s the text of a string, and kv the own properties of an   *)
(* object or array in key order, each a pair <<key, value>>.  An array's   *)
(* keys are its indices "0", "1", ...                                      *)
(***************************************************************************)
EXTENDS Integers, Sequences, FiniteSets, TLC

VARIABLES
    \* ---- processContact applied as a function (SpecSanitize)
    spc,            \* "input" | "once" | "twice"
    raw,            \* the record as it was before any call
    contactData,    \* the caller's record object handed to processContact
    options,        \* the options object handed to processContact
    sanitized,      \* outcome of processContact(contactData, options)
    resanitized,    \* outcome of processContact on that outcome's value
    \* ---- contacts export (SpecExport)
    epc,            \* position of the export action
    eopts,          \* the command's options: [account, output]
    remote,         \* the pages the People API holds, and its last cursor
    requests,       \* pageToken of every connections.list request, in order
    results,        \* listContacts: the local `results` array
    nextPageToken,  \* listContacts: the local `nextPageToken`
    listed,         \* what listContacts returned / threw
    contactsFile,   \* the contacts file written by export (Undefined: none)
    contactsPath,   \* where it was written: "" | "output" | "account"
    \* ---- contacts import (SpecImport)
    ipc,            \* position of the import action
    iopts,          \* the command's options
    fileContacts,   \* the content of the file named by --file
    contacts,       \* the action's local `contacts`
    bcc,            \* batchCreateContacts call: "notcalled" | "running" | "returned" | "threw"
    processedContacts, \* batchCreateContacts: the local `processedContacts`
    i,              \* batchCreateContacts: the loop variable
    submitted,      \* every batchCreateContacts request body sent, in order
    inflight,       \* indices (into submitted) of requests not yet answered
    outcome,        \* outcome[k]: "pending" | "ok" | "error" of request k
    bresults,       \* batchCreateContacts: the local `results` array
    failed,         \* batchCreateContacts: the local `failed` array
    progress,       \* the progress bar's value
    returned,       \* the {results, failed} seen by the caller at return
    failedFile,     \* the failed-contacts file (Undefined: none written)
    now,            \* ms gone by since batchCreateContacts was called
    timer,          \* the delay of the setTimeout being awaited, 0 when none
    sentAt,         \* sentAt[k]: the value of `now` when request k was sent
    \* ---- contacts clean (SpecCli)
    kpc,            \* position of the clean action
    kopts,          \* the command's options
    contactsData,   \* the action's local `contactsData`
    \* ---- contact-groups list (SpecFetch, SpecCli)
    gpc,            \* position of the list action
    gopts,          \* the command's options
    gremote,        \* the remote account's contact groups, page by page
    grequests,      \* pageToken of every contactGroups.list request sent, in order
    glisted,        \* what listContactGroups returned / threw
    groupsFile,     \* the file written for --output (Undefined: none)
    \* ---- utils summarize-data (SpecCli)
    upc,            \* position of the summarize-data action
    uopts,          \* the command's options
    \* ---- every command
    authorizeCalled, \* auth.authorize has been called
    exitCode        \* process.exit code, -1 while none

svars == <<spc, raw, contactData, options, sanitized, resanitized>>
evars == <<epc, eopts, remote, requests, results, nextPageToken, listed, contactsFile,
           contactsPath>>
ivars == <<ipc, iopts, fileContacts, contacts, bcc, processedContacts, i, submitted, inflight,
           outcome, bresults, failed, progress, returned, failedFile, now, timer,
           sentAt>>
kvars == <<kpc, kopts, contactsData>>
gvars == <<gpc, gopts, gremote, grequests, glisted, groupsFile>>
uvars == <<upc, uopts>>
vars == <<svars, evars, ivars, kvars, gvars, uvars, authorizeCalled, exitCode>>

-----------------------------------------------------------------------------
(* JSON values                                                             *)

Str(t) == [tp |-> "string", s |-> t, kv |-> <<>>]
Null == [tp |-> "null", s |-> "", kv |-> <<>>]
Undefined == [tp |-> "undefined", s |-> "", kv |-> <<>>]
Obj(pairs) == [tp |-> "object", s |-> "", kv |-> pairs]
Arr(elems) ==
    [tp |-> "array", s |-> "",
     kv |-> [n \in 1..Len(elems) |-> <<ToString(n - 1), elems[n]>>]]

\* typeof v
TypeOf(v) ==
    CASE v.tp \in {"object", "array", "null"} -> "object"
      [] v.tp = "string" -> "string"
      [] OTHER -> "undefined"

\* Boolean(v): the truthiness an `if (v)` tests
Truthy(v) ==
    CASE v.tp \in {"null", "undefined"} -> FALSE
      [] v.tp = "string" -> v.s # ""
      [] OTHER -> TRUE

\* Object.keys(o)
Keys(o) == [n \in 1..Len(o.kv) |-> o.kv[n][1]]
\* the elements of an array
Elems(a) == [n \in 1..Len(a.kv) |-> a.kv[n][2]]
HasKey(o, k) == \E n \in 1..Len(o.kv) : o.kv[n][1] = k
\* o[k] of a value that is neither null nor undefined
Get(o, k) ==
    IF HasKey(o, k)
    THEN o.kv[CHOOSE n \in 1..Len(o.kv) : o.kv[n][1] = k][2]
    ELSE Undefined
\* o?.[k]
OptGet(o, k) == IF o.tp \in {"null", "undefined"} THEN Undefined ELSE Get(o, k)
\* delete o[k]
Delete(o, k) == [o EXCEPT !.kv = SelectSeq(o.kv, LAMBDA p : p[1] # k)]
\* o[k] = v
Set(o, k, v) ==
    IF HasKey(o, k)
    THEN [o EXCEPT !.kv = [n \in 1..Len(o.kv) |->
                              IF o.kv[n][1] = k THEN <<k, v>> ELSE o.kv[n]]]
    ELSE [o EXCEPT !.kv = Append(o.kv, <<k, v>>)]

\* The outcome of a call that works on an object in place: whether it threw,
\* and the object as the call left it (which is also what it returns).
Returned(v) == [threw |-> FALSE, val |-> v]
Threw(v) == [threw |-> TRUE, val |-> v]

-----------------------------------------------------------------------------
(* bin/contacts.js: objectCleaner and processContact                       *)

RECURSIVE objectCleaner(_), cleanKeys(_, _, _)

\* cleanKeys without the recursion: only the top level is cleaned.
cleanKeysShallow(obj, keys, k) ==
    Returned(Delete(Delete(obj, "id"), "resourceName"))

\* The body of objectCleaner's loop, from the k-th key on: delete the key when
\* it is "id" or "resourceName", then clean what obj[key] holds when it is of
\* type "object" (which an array and null are too).
cleanKeys(obj, keys, k) ==
    IF k > Len(keys) THEN Returned(obj)
    ELSE LET key == keys[k]
             o1 == IF key \in {"id", "resourceName"} THEN Delete(obj, key) ELSE obj
             child == Get(o1, key)
         IN  IF TypeOf(child) = "object"
             THEN LET r == objectCleaner(child)
                  IN  IF r.threw THEN Threw(Set(o1, key, r.val))
                      ELSE cleanKeys(Set(o1, key, r.val), keys, k + 1)
             ELSE cleanKeys(o1, keys, k + 1)

\* objectCleaner(obj): Object.keys(null) throws a TypeError.
objectCleaner(obj) ==
    IF obj.tp \in {"null", "undefined"} THEN Threw(obj)
    ELSE cleanKeys(obj, Keys(obj), 1)

\* `${v}` of a template literal
TemplateText(v) == IF v.tp = "string" THEN v.s ELSE v.tp

\* One element of the memberships array
Membership(name) ==
    Obj(<< <<"contactGroupMembership",
             Obj(<< <<"contactGroupResourceName", Str(name)>> >>)>> >>)

\* defaultMembership without the default group when groups are given.
defaultMembershipNoDefault(opts) ==
    LET groups == Get(opts, "contactGroups")
    IN  IF ~Truthy(groups) THEN Returned(Arr(<<Membership("contactGroups/myContacts")>>))
        ELSE IF groups.tp # "array" THEN Threw(Undefined)
        ELSE Returned(Arr([n \in 1..Len(groups.kv) |->
                 Membership("contactGroups/" \o TemplateText(groups.kv[n][2]))]))

\* processContact, the memberships it builds: the default group, then one
\* entry per element of options.contactGroups when that option is truthy.
defaultMembership(opts) ==
    LET base == <<Membership("contactGroups/myContacts")>>
        groups == Get(opts, "contactGroups")
    IN  IF ~Truthy(groups) THEN Returned(Arr(base))
        ELSE IF groups.tp # "array" THEN Threw(Undefined)
        ELSE Returned(Arr(base \o [n \in 1..Len(groups.kv) |->
                 Membership("contactGroups/" \o TemplateText(groups.kv[n][2]))]))

\* entry.metadata?.source?.type
SourceType(entry) == OptGet(OptGet(Get(entry, "metadata"), "source"), "type")

\* field.filter(...) throws when field has no filter method or when the
\* callback reads .metadata of a null entry.
FilterThrows(field) ==
    \/ field.tp # "array"
    \/ \E n \in 1..Len(field.kv) : field.kv[n][2].tp \in {"null", "undefined"}

\* FilterContact keeping the entries that carry no tag as well.
FilterContactOrUntagged(field) ==
    Arr(SelectSeq(Elems(field),
                  LAMBDA e : SourceType(e) \in {Str("CONTACT"), Undefined}))

\* field.filter((e) => e.metadata?.source?.type === "CONTACT")
FilterContact(field) ==
    Arr(SelectSeq(Elems(field), LAMBDA e : SourceType(e) = Str("CONTACT")))

\* ReplaceMemberships as a merge into the memberships present.
MergeMemberships(obj, m) ==
    LET old == Get(obj, "memberships")
    IN  IF old.tp = "array"
        THEN Set(obj, "memberships", Arr(Elems(old) \o Elems(m)))
        ELSE Set(obj, "memberships", m)

\* contactData.memberships = defaultMembership
ReplaceMemberships(obj, m) == Set(obj, "memberships", m)

\* The five top-level deletes
DeleteReadOnly(obj) ==
    Delete(Delete(Delete(Delete(Delete(obj, "metadata"), "resourceName"),
                         "etag"), "photos"), "coverPhotos")

\* processContact(contactData, options).  The call works on contactData in
\* place and returns that same object; val is the object as the call left it.
processContact(cd, opts) ==
    LET m == defaultMembership(opts)
    IN  IF m.threw THEN Threw(cd)
        ELSE IF cd.tp \in {"null", "undefined"} THEN Threw(cd)
        ELSE
        LET c1 == DeleteReadOnly(cd)
            names == Get(c1, "names")
        IN  IF Truthy(names) /\ FilterThrows(names) THEN Threw(c1)
            ELSE
            LET c2 == IF Truthy(names) THEN Set(c1, "names", FilterContact(names)) ELSE c1
                emails == Get(c2, "emailAddresses")
            IN  IF Truthy(emails) /\ FilterThrows(emails) THEN Threw(c2)
                ELSE
                LET c3 == IF Truthy(emails)
                          THEN Set(c2, "emailAddresses", FilterContact(emails))
                          ELSE c2
                IN  objectCleaner(ReplaceMemberships(c3, m.val))

-----------------------------------------------------------------------------
(* Contact records and options the model draws its inputs from             *)

MaxEntries == 2     \* longest names array
MaxEmails == 1      \* longest emailAddresses array
MaxGroups == 2      \* longest options.contactGroups array

SeqsUpTo(S, n) == UNION {[1..k -> S] : k \in 0..n}

\* A sub-record as the People API returns it: a provenance tag (with the id
\* of the source it came from) and a value; kind "NONE" carries no tag.
Entry(kind, text) ==
    IF kind = "NONE" THEN Obj(<< <<"value", Str(text)>> >>)
    ELSE Obj(<< <<"metadata",
                  Obj(<< <<"source", Obj(<< <<"type", Str(kind)>>,
                                            <<"id", Str("src-" \o text)>> >>)>> >>)>>,
                <<"value", Str(text)>> >>)

EntryArray(kinds) == Arr([n \in 1..Len(kinds) |-> Entry(kinds[n], ToString(n))])

\* The server-owned top-level fields of a record read from the remote
ReadOnlyFields(tag) ==
    << <<"resourceName", Str("people/" \o tag)>>,
       <<"etag", Str("etag-" \o tag)>>,
       <<"metadata", Obj(<< <<"sources", Arr(<<Obj(<< <<"type", Str("CONTACT")>>,
                                                    <<"id", Str(tag)>> >>)>>)>> >>)>>,
       <<"photos", Arr(<<Entry("PROFILE", "photo")>>)>>,
       <<"coverPhotos", Arr(<<Entry("PROFILE", "cover")>>)>> >>

\* memberships as the remote returns them
OldMemberships ==
    << <<"memberships",
         Arr(<<Obj(<< <<"metadata", Obj(<< <<"source", Obj(<< <<"type", Str("CONTACT")>>,
                                                              <<"id", Str("m")>> >>)>> >>)>>,
                      <<"contactGroupMembership",
                        Obj(<< <<"contactGroupId", Str("old")>>,
                               <<"contactGroupResourceName", Str("contactGroups/old")>> >>)>>
                   >>)>>)>> >>

\* fields of other kinds, with server identifiers nested in them
OtherFields ==
    << <<"phoneNumbers", EntryArray(<<"PROFILE", "CONTACT">>)>>,
       <<"organizations", Arr(<<Obj(<< <<"id", Str("org")>>,
                                       <<"name", Str("acme")>>,
                                       <<"location",
                                         Obj(<< <<"resourceName", Str("places/1")>>,
                                                <<"city", Str("x")>> >>)>> >>)>>)>> >>

Field(name, v) == IF v = Undefined THEN <<>> ELSE << <<name, v>> >>

NameKinds == {"CONTACT", "PROFILE", "NONE"}
EmailKinds == {"CONTACT", "DOMAIN_PROFILE"}

WellFormedContacts ==
    { Obj((IF ro THEN ReadOnlyFields("c1") ELSE <<>>)
          \o Field("names", n) \o Field("emailAddresses", e)
          \o (IF ms THEN OldMemberships ELSE <<>>)
          \o (IF ot THEN OtherFields ELSE <<>>)) :
        ro \in BOOLEAN, ms \in BOOLEAN, ot \in BOOLEAN,
        n \in {Undefined} \cup {EntryArray(k) : k \in SeqsUpTo(NameKinds, MaxEntries)},
        e \in {Undefined} \cup {EntryArray(k) : k \in SeqsUpTo(EmailKinds, MaxEmails)} }

\* Records a JSON file can hold that the remote does not return
MalformedContacts ==
    { Null,
      Obj(<< <<"names", Null>> >>),
      Obj(<< <<"names", Str("Ada")>> >>),
      Obj(<< <<"names", Str("")>> >>),
      Obj(<< <<"names", Arr(<<Entry("CONTACT", "1"), Null>>)>> >>),
      Obj(<< <<"emailAddresses", Obj(<< <<"value", Str("a@b")>> >>)>> >>),
      Obj(ReadOnlyFields("c1") \o << <<"biographies", Arr(<<Obj(<< <<"value", Null>> >>)>>)>> >>) }

RawContacts == WellFormedContacts \cup MalformedContacts

GroupNames == {"a", "b"}

\* The options objects processContact is called with: no contactGroups
\* property, one that is undefined, or an array of group names.
OptionsValues ==
    { Obj(<<>>), Obj(<< <<"contactGroups", Undefined>> >>) }
    \cup { Obj(<< <<"contactGroups", Arr([n \in 1..Len(g) |-> Str(g[n])])>> >>) :
             g \in SeqsUpTo(GroupNames, MaxGroups) }

-----------------------------------------------------------------------------
(* bin/contacts.js: listContacts, and the remote it reads from             *)

MaxPages == 3       \* most pages the remote holds
MaxPageLen == 2     \* most records on one page

\* The n-th contact of the remote account
RemoteContact(n) ==
    Obj(ReadOnlyFields("c" \o ToString(n))
        \o << <<"names", EntryArray(<<"CONTACT", "PROFILE">>)>> >>)

\* The continuation cursor that asks for page k
Cursor(k) == Str("page-" \o ToString(k))

RECURSIVE RecordsBefore(_, _)
\* how many records the pages before page k hold
RecordsBefore(sizes, k) ==
    IF k <= 1 THEN 0
    ELSE RecordsBefore(sizes, k - 1)
         + (IF sizes[k - 1] > 0 THEN sizes[k - 1] ELSE 0)

\* The `connections` of page k of a remote whose pages hold sizes[k] records;
\* a size of -1 is a response that carries no connections property.
Connections(sizes, k) ==
    IF sizes[k] < 0 THEN Undefined
    ELSE Arr([n \in 1..sizes[k] |-> RemoteContact(RecordsBefore(sizes, k) + n)])

\* The remotes the model reads from: one to MaxPages pages, the last one
\* answered with no cursor or with an empty one.
Remotes ==
    { [pages |-> [k \in 1..Len(sizes) |-> Connections(sizes, k)],
       lastCursor |-> c] :
        sizes \in SeqsUpTo(-1..MaxPageLen, MaxPages) \ {<<>>},
        c \in {Undefined, Str("")} }

\* res.data of people.connections.list({pageToken}) 
ListResponseData(rem, pageToken) ==
    LET k == IF pageToken = Null THEN 1
             ELSE CHOOSE n \in 1..Len(rem.pages) : Cursor(n) = pageToken
    IN  [connections |-> rem.pages[k],
         nextPageToken |-> IF k < Len(rem.pages) THEN Cursor(k + 1) ELSE rem.lastCursor]

RECURSIVE Flat(_)
\* results.flat(): the elements of every element that is an array, and every
\* other element as it is
Flat(seq) ==
    IF seq = <<>> THEN <<>>
    ELSE (IF Head(seq).tp = "array" THEN Elems(Head(seq)) ELSE <<Head(seq)>>)
         \o Flat(Tail(seq))

\* listContactsOnError as a loop that gives up and returns what it has.
listContactsKeepPartial(res) == Returned(Arr(Flat(res)))

\* listContacts when the awaited request rejects: the rejection leaves the
\* function, whatever `results` holds.
listContactsOnError(res) == Threw(Undefined)

\* return results.flat()
listContactsReturn(res) == Returned(Arr(Flat(res)))

RECURSIVE Stringify(_)
\* The value the text JSON.stringify(v, null, 2) denotes: an undefined array
\* element is written as null, an undefined property is left out.
Stringify(v) ==
    CASE v.tp = "array" ->
           Arr([n \in 1..Len(v.kv) |->
                  IF v.kv[n][2].tp = "undefined" THEN Null ELSE Stringify(v.kv[n][2])])
      [] v.tp = "object" ->
           Obj([n \in 1..Len(SelectSeq(v.kv, LAMBDA p : p[2].tp # "undefined")) |->
                  LET p == SelectSeq(v.kv, LAMBDA q : q[2].tp # "undefined")[n]
                  IN  <<p[1], Stringify(p[2])>>])
      [] OTHER -> v

-----------------------------------------------------------------------------
(* bin/contacts.js: batchCreateContacts                                    *)

BATCH_SIZE == 25
MaxContacts == 53   \* most records in the file that is imported

Min(a, b) == IF a < b THEN a ELSE b

\* arr.slice(from, to) of an array given as a sequence, 0 <= from
Slice(seq, from, to) == SubSeq(seq, from + 1, Min(to, Len(seq)))

\* NextBatch with batches that overlap by one record.
NextBatchOverlap(processed, at) == Slice(processed, at, at + BATCH_SIZE + 1)

\* processedContacts.slice(i, i + BATCH_SIZE)
NextBatch(processed, at) == Slice(processed, at, at + BATCH_SIZE)

\* contacts.map((contact) => ({contactPerson: processContact(contact, options)}))
\* throws when processContact throws for one of the contacts.
MapThrows(cs, opts) == \E n \in 1..Len(cs) : processContact(cs[n], opts).threw
MapProcess(cs, opts) ==
    [n \in 1..Len(cs) |->
        Obj(<< <<"contactPerson", processContact(cs[n], opts).val>> >>)]

\* res.data of a batchCreateContacts request that succeeds: the created
\* people, each with the resource name the remote gave it.
CreatedData(batch) ==
    Obj(<< <<"createdPeople",
             Arr([n \in 1..Len(batch) |->
                    Obj(<< <<"httpStatusCode", Str("200")>>,
                           <<"person", Set(Get(batch[n], "contactPerson"),
                                           "resourceName", Str("people/new"))>> >>)])>> >>)

\* catchHandler as a handler that logs the error and throws it again.
catchHandlerRethrow(fl, batch) == [failed |-> fl, rethrown |-> TRUE]

\* .catch((error) => { failed.push(batch); console.error(...) })
catchHandler(fl, batch) == [failed |-> Append(fl, batch), rethrown |-> FALSE]

-----------------------------------------------------------------------------
(* contacts import: its options and the file it reads                      *)

\* A record of the file: one that `contacts export` wrote
FileContact(n) ==
    Obj((IF n % 10 = 1 THEN ReadOnlyFields("c" \o ToString(n))
         ELSE << <<"resourceName", Str("people/c" \o ToString(n))>>,
                 <<"etag", Str("etag")>> >>)
        \o << <<"names", Arr(<<Entry("PROFILE", "p"), Entry("CONTACT", ToString(n))>>)>> >>)

\* The files the model imports: up to MaxContacts exported records, and the
\* files with a null entry.
Files ==
    { [n \in 1..len |-> FileContact(n)] : len \in 0..MaxContacts }
    \cup { <<Null>>, <<FileContact(1), Null>> }

\* The texts given to --contact-groups, character by character
GroupTexts == { <<"a", ",", "b">>, <<>> }

RECURSIVE SplitFrom(_, _, _)
SplitFrom(text, cur, acc) ==
    IF text = <<>> THEN Append(acc, cur)
    ELSE IF Head(text) = "," THEN SplitFrom(Tail(text), "", Append(acc, cur))
    ELSE SplitFrom(Tail(text), cur \o Head(text), acc)

\* text.split(',')
Split(text) == SplitFrom(text, "", <<>>)

\* options.contactGroups?.split(',') ?? undefined
ContactGroupsOption(o) ==
    IF o.groupsGiven
    THEN Arr([n \in 1..Len(Split(o.contactGroups)) |-> Str(Split(o.contactGroups)[n])])
    ELSE Undefined

\* The options object the action hands to batchCreateContacts
BatchOptions(o) == Obj(<< <<"contactGroups", ContactGroupsOption(o)>> >>)

-----------------------------------------------------------------------------
(* The state each command leaves alone while another one runs              *)

NoOutcome == Returned(Undefined)

SanitizeIdle ==
    /\ spc = "idle" /\ raw = Undefined /\ contactData = Undefined
    /\ options = Undefined /\ sanitized = NoOutcome /\ resanitized = NoOutcome

ExportIdle ==
    /\ epc = "idle" /\ eopts = [account |-> FALSE, output |-> FALSE]
    /\ remote = [pages |-> <<>>, lastCursor |-> Undefined]
    /\ requests = <<>> /\ results = <<>> /\ nextPageToken = Null
    /\ listed = NoOutcome /\ contactsFile = Undefined /\ contactsPath = ""

ImportIdle ==
    /\ ipc = "idle"
    /\ iopts = [destination |-> FALSE, source |-> FALSE, file |-> FALSE,
                exists |-> FALSE, limit |-> FALSE, limitArg |-> 0,
                contactGroups |-> <<>>, groupsGiven |-> FALSE]
    /\ fileContacts = <<>> /\ contacts = <<>> /\ bcc = "notcalled"
    /\ processedContacts = <<>> /\ i = 0 /\ submitted = <<>> /\ inflight = {}
    /\ outcome = <<>> /\ bresults = <<>> /\ failed = <<>> /\ progress = 0
    /\ returned = [results |-> <<>>, failed |-> <<>>] /\ failedFile = Undefined
    /\ now = 0 /\ timer = 0 /\ sentAt = <<>>

CleanIdle ==
    /\ kpc = "idle"
    /\ kopts = [account |-> FALSE, file |-> FALSE, exists |-> FALSE, urls |-> FALSE,
                urlType |-> FALSE, externalIds |-> FALSE]
    /\ contactsData = Undefined

GroupsIdle ==
    /\ gpc = "idle" /\ gopts = [account |-> FALSE, output |-> FALSE]
    /\ gremote = <<>> /\ grequests = <<>> /\ glisted = NoOutcome
    /\ groupsFile = Undefined

SummarizeIdle == upc = "idle" /\ uopts = [file |-> FALSE, exists |-> FALSE]

-----------------------------------------------------------------------------
(* processContact applied as a function                                    *)

SanitizeInit ==
    /\ spc = "input"
    /\ raw \in RawContacts
    /\ contactData = raw
    /\ options \in OptionsValues
    /\ sanitized = NoOutcome /\ resanitized = NoOutcome
    /\ ExportIdle /\ ImportIdle /\ CleanIdle /\ GroupsIdle /\ SummarizeIdle
    /\ authorizeCalled = FALSE /\ exitCode = -1

\* processContact(contactData, options): the caller's object is worked on in
\* place, so it is afterwards what the call left.
Sanitize ==
    /\ spc = "input"
    /\ sanitized' = processContact(contactData, options)
    /\ contactData' = sanitized'.val
    /\ spc' = "once"
    /\ UNCHANGED <<raw, options, resanitized, evars, ivars, exitCode,
                   kvars, gvars, uvars, authorizeCalled>>

\* processContact applied to what the first call returned
SanitizeAgain ==
    /\ spc = "once" /\ ~sanitized.threw
    /\ resanitized' = processContact(sanitized.val, options)
    /\ contactData' = resanitized'.val
    /\ spc' = "twice"
    /\ UNCHANGED <<raw, options, sanitized, evars, ivars, exitCode,
                   kvars, gvars, uvars, authorizeCalled>>

SanitizeNext == Sanitize \/ SanitizeAgain

SpecSanitize == SanitizeInit /\ [][SanitizeNext]_vars

-----------------------------------------------------------------------------
(* contacts export                                                         *)

ExportInit ==
    /\ epc = "start"
    /\ eopts \in [account : BOOLEAN, output : BOOLEAN]
    /\ remote \in Remotes
    /\ requests = <<>> /\ results = <<>> /\ nextPageToken = Null
    /\ listed = NoOutcome /\ contactsFile = Undefined /\ contactsPath = ""
    /\ SanitizeIdle /\ ImportIdle /\ CleanIdle /\ GroupsIdle /\ SummarizeIdle
    /\ authorizeCalled = FALSE /\ exitCode = -1

\* The action up to its first await: without an account it exits with 1,
\* else it asks for the account's credentials.
ExportStart ==
    /\ epc = "start"
    /\ IF ~eopts.account
       THEN epc' = "exited" /\ exitCode' = 1 /\ authorizeCalled' = FALSE
       ELSE epc' = "authorizing" /\ exitCode' = exitCode /\ authorizeCalled' = TRUE
    /\ UNCHANGED <<eopts, remote, requests, results, nextPageToken, listed,
                   contactsFile, contactsPath, svars, ivars,
                   kvars, gvars, uvars>>

\* auth.authorize resolves: listContacts starts and sends its first request,
\* with pageToken null.
ExportAuthorized ==
    /\ epc = "authorizing"
    /\ results' = <<>>
    /\ nextPageToken' = Null
    /\ requests' = Append(requests, Null)
    /\ epc' = "listing"
    /\ UNCHANGED <<eopts, remote, listed, contactsFile, contactsPath, svars, ivars,
                   exitCode,
                   kvars, gvars, uvars, authorizeCalled>>

\* auth.authorize rejects: the action's catch logs the error.
ExportAuthorizeFailed ==
    /\ epc = "authorizing"
    /\ epc' = "unauthorized"
    /\ UNCHANGED <<eopts, remote, requests, results, nextPageToken, listed,
                   contactsFile, contactsPath, svars, ivars, exitCode,
                   kvars, gvars, uvars, authorizeCalled>>

\* What the export action does with the outcome of `await listContacts(...)`:
\* a rejection goes to its catch, a value is written to the output file when
\* one is named and to the account's directory otherwise.
ExportAfterList(out) ==
    /\ listed' = out
    /\ IF out.threw
       THEN UNCHANGED <<contactsFile, contactsPath>>
       ELSE /\ contactsFile' = Stringify(out.val)
            /\ contactsPath' = IF eopts.output THEN "output" ELSE "account"

\* A connections.list request resolves: its page is pushed, its cursor kept,
\* and the loop asks for the next page when the cursor is truthy; otherwise
\* listContacts returns and the export action goes on.
ListResponse ==
    /\ epc = "listing"
    /\ LET data == ListResponseData(remote, requests[Len(requests)])
           res == Append(results, data.connections)
       IN  /\ results' = res
           /\ nextPageToken' = data.nextPageToken
           /\ IF Truthy(data.nextPageToken)
              THEN /\ requests' = Append(requests, data.nextPageToken)
                   /\ epc' = "listing"
                   /\ UNCHANGED <<listed, contactsFile, contactsPath>>
              ELSE /\ ExportAfterList(listContactsReturn(res))
                   /\ epc' = "done"
                   /\ UNCHANGED requests
    /\ UNCHANGED <<eopts, remote, svars, ivars, exitCode,
                   kvars, gvars, uvars, authorizeCalled>>

\* A connections.list request rejects.
ListError ==
    /\ epc = "listing"
    /\ ExportAfterList(listContactsOnError(results))
    /\ epc' = "failed"
    /\ UNCHANGED <<eopts, remote, requests, results, nextPageToken, svars, ivars,
                   exitCode,
                   kvars, gvars, uvars, authorizeCalled>>

ExportNext ==
    \/ ExportStart
    \/ ExportAuthorized
    \/ ExportAuthorizeFailed
    \/ ListResponse
    \/ ListError

SpecExport == ExportInit /\ [][ExportNext]_vars

-----------------------------------------------------------------------------
(* contacts import                                                         *)

MaxLimit == 3       \* largest number typed after --limit

\* The command line: which flags are given, whether the file named by --file
\* exists, and the number typed after --limit.  --limit is declared without
\* a value, so options.limit is true when the flag is given and the number
\* after it is not part of the option.
ImportOptions ==
    { o \in [destination : BOOLEAN, source : BOOLEAN, file : BOOLEAN,
             exists : BOOLEAN, limit : BOOLEAN, limitArg : 0..MaxLimit,
             contactGroups : GroupTexts, groupsGiven : BOOLEAN] :
        /\ (~o.file => ~o.exists)
        /\ (o.limit <=> o.limitArg > 0)
        /\ (~o.groupsGiven => o.contactGroups = <<>>) }

ImportInit ==
    /\ ipc = "start"
    /\ iopts \in ImportOptions
    /\ fileContacts \in (IF iopts.exists THEN Files ELSE {<<>>})
    /\ contacts = <<>> /\ bcc = "notcalled"
    /\ processedContacts = <<>> /\ i = 0 /\ submitted = <<>> /\ inflight = {}
    /\ outcome = <<>> /\ bresults = <<>> /\ failed = <<>> /\ progress = 0
    /\ returned = [results |-> <<>>, failed |-> <<>>] /\ failedFile = Undefined
    /\ now = 0 /\ timer = 0 /\ sentAt = <<>>
    /\ SanitizeIdle /\ ExportIdle /\ CleanIdle /\ GroupsIdle /\ SummarizeIdle
    /\ authorizeCalled = FALSE /\ exitCode = -1

\* The action up to its first await: the checks that exit with 1, then the
\* file is read, cut to the limit when --limit is given (a flag without a
\* value, so options.limit is true and slice(0, true) keeps one record), and
\* the destination's credentials are asked for.
ImportStart ==
    /\ ipc = "start"
    /\ IF ~iopts.destination THEN
            /\ ipc' = "exited" /\ exitCode' = 1 /\ contacts' = contacts
       ELSE IF iopts.file THEN
            IF ~iopts.exists THEN
               /\ ipc' = "exited" /\ exitCode' = 1 /\ contacts' = contacts
            ELSE
               /\ contacts' = IF iopts.limit THEN Slice(fileContacts, 0, 1)
                              ELSE fileContacts
               /\ ipc' = "authorizing" /\ exitCode' = exitCode
       ELSE IF iopts.source /\ iopts.destination THEN
            /\ ipc' = "exited" /\ exitCode' = 1 /\ contacts' = contacts
       ELSE
            /\ ipc' = "exited" /\ exitCode' = 1 /\ contacts' = contacts
    /\ UNCHANGED <<iopts, fileContacts, bcc, processedContacts, i, submitted,
                   inflight, outcome, bresults, failed, progress, returned,
                   failedFile, now, timer, sentAt, svars, evars,
                   kvars, gvars, uvars>>
    /\ authorizeCalled' = (ipc' = "authorizing")

\* auth.authorize rejects: nothing catches it and the process ends.
ImportAuthorizeFailed ==
    /\ ipc = "authorizing"
    /\ ipc' = "crashed" /\ exitCode' = 1
    /\ UNCHANGED <<iopts, fileContacts, contacts, bcc, processedContacts, i,
                   submitted, inflight, outcome, bresults, failed, progress,
                   returned, failedFile, now, timer, sentAt, svars, evars,
                   kvars, gvars, uvars, authorizeCalled>>

INTER_BATCH_DELAY == 5000

\* The delay with failed batches not waited for.
TimerDelayUnlessFailed(outcomes) ==
    IF \E k \in 1..Len(outcomes) : outcomes[k] = "error" THEN 0
    ELSE INTER_BATCH_DELAY

\* The delay handed to setTimeout after a request was sent, with the
\* outcomes of the requests known at that moment: it does not read them.
TimerDelay(outcomes) == INTER_BATCH_DELAY

\* people.batchCreateContacts({requestBody: {contacts: batch}}) is sent at
\* time t, and the timer the loop then awaits is set.
Submit(batch, t) ==
    /\ submitted' = Append(submitted, batch)
    /\ inflight' = inflight \cup {Len(submitted) + 1}
    /\ outcome' = Append(outcome, "pending")
    /\ sentAt' = Append(sentAt, t)
    /\ timer' = TimerDelay(outcome)

\* The caller's failed array as JSON
FailedJson(fl) == Arr([k \in 1..Len(fl) |-> Arr(fl[k])])

\* batchCreateContacts returns {results, failed}; the action goes on at once
\* and writes the failed array to the failed-contacts file.
ReturnAndWrite(res, fl) ==
    /\ bcc' = "returned"
    /\ timer' = 0 /\ sentAt' = sentAt
    /\ returned' = [results |-> res, failed |-> fl]
    /\ failedFile' = Stringify(FailedJson(fl))
    /\ ipc' = "done"

\* The caller's contact objects after contacts.map(...): processContact has
\* worked on each in place, up to and including the first one it threw on.
ContactsAfter(cs, opts) ==
    LET out == [n \in 1..Len(cs) |-> processContact(cs[n], opts)]
    IN  [n \in 1..Len(cs) |->
            IF \E m \in 1..(n - 1) : out[m].threw THEN cs[n] ELSE out[n].val]

\* auth.authorize resolves and batchCreateContacts runs up to its first
\* await: every contact is processed, the first batch is sent and the
\* 5 s timer is set.  With no contact it returns at once.
ImportAuthorized ==
    /\ ipc = "authorizing"
    /\ LET opts == BatchOptions(iopts)
       IN  /\ contacts' = ContactsAfter(contacts, opts)
           /\ IF MapThrows(contacts, opts)
              THEN /\ bcc' = "threw" /\ ipc' = "crashed" /\ exitCode' = 1
                   /\ UNCHANGED <<processedContacts, i, submitted, inflight, outcome,
                                  bresults, failed, progress, returned, failedFile,
                                  now, timer, sentAt>>
              ELSE LET pcs == MapProcess(contacts, opts)
                   IN  /\ processedContacts' = pcs
                       /\ i' = 0 /\ progress' = 0 /\ now' = 0
                       /\ bresults' = <<>> /\ failed' = <<>>
                       /\ exitCode' = exitCode
                       /\ IF 0 < Len(pcs)
                          THEN /\ Submit(NextBatch(pcs, 0), 0)
                               /\ bcc' = "running" /\ ipc' = "delay"
                               /\ UNCHANGED <<returned, failedFile>>
                          ELSE /\ ReturnAndWrite(<<>>, <<>>)
                               /\ UNCHANGED <<submitted, inflight, outcome>>
    /\ UNCHANGED <<iopts, fileContacts, svars, evars,
                   kvars, gvars, uvars, authorizeCalled>>

\* The 5 s timer fires: the progress bar moves on, and the loop either sends
\* the next batch and sets the timer again, or ends, and batchCreateContacts
\* returns to the action, which writes the failed-contacts file.
TimerFire ==
    /\ ipc = "delay"
    /\ progress' = progress + Len(submitted[Len(submitted)])
    /\ i' = i + BATCH_SIZE
    /\ now' = now + timer
    /\ IF i + BATCH_SIZE < Len(processedContacts)
       THEN /\ Submit(NextBatch(processedContacts, i + BATCH_SIZE), now + timer)
            /\ UNCHANGED <<bcc, ipc, returned, failedFile>>
       ELSE /\ ReturnAndWrite(bresults, failed)
            /\ UNCHANGED <<submitted, inflight, outcome>>
    /\ UNCHANGED <<iopts, fileContacts, contacts, processedContacts, bresults,
                   failed, svars, evars, exitCode,
                   kvars, gvars, uvars, authorizeCalled>>

\* The request for batch k resolves: .then pushes res.data to results.
BatchResolved ==
    /\ ipc \in {"delay", "done"}
    /\ \E k \in inflight :
         /\ inflight' = inflight \ {k}
         /\ outcome' = [outcome EXCEPT ![k] = "ok"]
         /\ bresults' = Append(bresults, CreatedData(submitted[k]))
    /\ UNCHANGED <<ipc, iopts, fileContacts, contacts, bcc, processedContacts, i,
                   submitted, failed, progress, returned, failedFile, now, timer,
                   sentAt, svars, evars, exitCode,
                   kvars, gvars, uvars, authorizeCalled>>

\* The request for batch k rejects: .catch pushes the batch to failed.
BatchRejected ==
    /\ ipc \in {"delay", "done"}
    /\ \E k \in inflight :
         LET h == catchHandler(failed, submitted[k])
         IN  /\ inflight' = inflight \ {k}
             /\ outcome' = [outcome EXCEPT ![k] = "error"]
             /\ failed' = h.failed
             /\ IF h.rethrown
                THEN ipc' = "crashed" /\ exitCode' = 1
                ELSE UNCHANGED <<ipc, exitCode>>
    /\ UNCHANGED <<iopts, fileContacts, contacts, bcc, processedContacts, i,
                   submitted, bresults, progress, returned, failedFile, now, timer,
                   sentAt, svars, evars,
                   kvars, gvars, uvars, authorizeCalled>>

ImportNext ==
    \/ ImportStart
    \/ ImportAuthorizeFailed
    \/ ImportAuthorized
    \/ TimerFire
    \/ BatchResolved
    \/ BatchRejected

SpecImport == ImportInit /\ [][ImportNext]_vars

\* The imports that get as far as the write run: a destination and a file
\* that exists are given, and neither a source nor contact groups (which
\* the write run's control flow does not read).
WriteRunInit ==
    /\ ImportInit
    /\ iopts.destination /\ iopts.file /\ iopts.exists
    /\ ~iopts.source /\ ~iopts.groupsGiven

\* The timer that batchCreateContacts awaits does fire.
FairSpecImport == WriteRunInit /\ [][ImportNext]_vars /\ WF_vars(TimerFire)

-----------------------------------------------------------------------------
(* bin/contact-groups.js: listContactGroups, and contact-groups list       *)

MaxGroupPages == 2      \* most pages of contact groups the remote holds
MaxGroupPageLen == 2    \* most contact groups on one page

\* A contact group of the remote account
Group(tag) ==
    Obj(<< <<"resourceName", Str("contactGroups/" \o tag)>>,
           <<"etag", Str("etag-" \o tag)>>,
           <<"groupType", Str("USER_CONTACT_GROUP")>>,
           <<"formattedName", Str(tag)>> >>)

\* The remotes the command lists from: one to MaxGroupPages pages, each
\* holding one to MaxGroupPageLen groups.
GroupRemotes ==
    { [k \in 1..Len(sizes) |->
          Arr([n \in 1..sizes[k] |-> Group(ToString(k) \o "-" \o ToString(n))])] :
        sizes \in SeqsUpTo(1..MaxGroupPageLen, MaxGroupPages) \ {<<>>} }

\* res.data of people.contactGroups.list: the page the pageToken asks for
\* (the first one when the request carries none), and the cursor of the
\* next page when there is one.
GroupsResponseData(rem, pageToken) ==
    LET k == IF pageToken = Undefined THEN 1
             ELSE CHOOSE n \in 1..Len(rem) : Cursor(n) = pageToken
    IN  Obj(<< <<"contactGroups", rem[k]>>,
               <<"nextPageToken", IF k < Len(rem) THEN Cursor(k + 1) ELSE Undefined>> >>)

\* listContactGroups: return res.data
listContactGroups(data) == Returned(data)

GroupsInit ==
    /\ gpc = "start"
    /\ gopts \in [account : BOOLEAN, output : BOOLEAN]
    /\ gremote \in GroupRemotes
    /\ grequests = <<>> /\ glisted = NoOutcome /\ groupsFile = Undefined
    /\ SanitizeIdle /\ ExportIdle /\ ImportIdle /\ CleanIdle /\ SummarizeIdle
    /\ authorizeCalled = FALSE /\ exitCode = -1

\* The action up to its first await: without an account it exits with 1,
\* else it asks for the account's credentials.
GroupsStart ==
    /\ gpc = "start"
    /\ IF ~gopts.account
       THEN gpc' = "exited" /\ exitCode' = 1 /\ authorizeCalled' = FALSE
       ELSE gpc' = "authorizing" /\ exitCode' = exitCode /\ authorizeCalled' = TRUE
    /\ UNCHANGED <<gopts, gremote, grequests, glisted, groupsFile, svars, evars,
                   ivars, kvars, uvars>>

\* auth.authorize resolves: listContactGroups sends its request, which
\* carries a page size and no pageToken.
GroupsAuthorized ==
    /\ gpc = "authorizing"
    /\ grequests' = Append(grequests, Undefined)
    /\ gpc' = "listing"
    /\ UNCHANGED <<gopts, gremote, glisted, groupsFile, svars, evars, ivars, kvars,
                   uvars, authorizeCalled, exitCode>>

\* auth.authorize rejects: the action's catch logs the error.
GroupsAuthorizeFailed ==
    /\ gpc = "authorizing"
    /\ gpc' = "unauthorized"
    /\ UNCHANGED <<gopts, gremote, grequests, glisted, groupsFile, svars, evars,
                   ivars, kvars, uvars, authorizeCalled, exitCode>>

\* The contactGroups.list request resolves: listContactGroups returns its
\* data, and the action prints the groups and writes them to the output file
\* when one is named.
GroupsListResponse ==
    /\ gpc = "listing"
    /\ LET out == listContactGroups(
                      GroupsResponseData(gremote, grequests[Len(grequests)]))
       IN  /\ glisted' = out
           /\ groupsFile' = IF gopts.output
                            THEN Stringify(Get(out.val, "contactGroups"))
                            ELSE groupsFile
    /\ gpc' = "done"
    /\ UNCHANGED <<gopts, gremote, grequests, svars, evars, ivars, kvars, uvars,
                   authorizeCalled, exitCode>>

\* The contactGroups.list request rejects: the action's catch logs the error.
GroupsListError ==
    /\ gpc = "listing"
    /\ glisted' = Threw(Undefined)
    /\ gpc' = "failed"
    /\ UNCHANGED <<gopts, gremote, grequests, groupsFile, svars, evars, ivars,
                   kvars, uvars, authorizeCalled, exitCode>>

GroupsNext ==
    \/ GroupsStart
    \/ GroupsAuthorized
    \/ GroupsAuthorizeFailed
    \/ GroupsListResponse
    \/ GroupsListError

\* The two commands that fetch a resource kind from the remote
FetchInit == ExportInit \/ GroupsInit

FetchNext == ExportNext \/ GroupsNext

SpecFetch == FetchInit /\ [][FetchNext]_vars

-----------------------------------------------------------------------------
(* contacts clean                                                          *)

CleanOptions ==
    { o \in [account : BOOLEAN, file : BOOLEAN, exists : BOOLEAN, urls : BOOLEAN,
             urlType : BOOLEAN, externalIds : BOOLEAN] : ~o.file => ~o.exists }

\* What JSON.parse(fs.readFileSync(file)) gives for the file that exists
CleanFile == Arr(<<FileContact(1), FileContact(2)>>)

\* The checks of the options that exit with 1
CleanInvalid(o) ==
    \/ ~o.account
    \/ o.urls /\ ~o.urlType
    \/ ~o.file /\ ~o.externalIds /\ ~o.urls

\* The command reads the account's contacts with listContacts when no file
\* is named; the variables of listContacts are those the export uses.
CleanInit ==
    /\ kpc = "start"
    /\ kopts \in CleanOptions
    /\ contactsData = Undefined
    /\ remote \in (IF ~CleanInvalid(kopts) /\ ~kopts.file THEN Remotes
                   ELSE {[pages |-> <<>>, lastCursor |-> Undefined]})
    /\ epc = "idle" /\ eopts = [account |-> FALSE, output |-> FALSE]
    /\ requests = <<>> /\ results = <<>> /\ nextPageToken = Null
    /\ listed = NoOutcome /\ contactsFile = Undefined /\ contactsPath = ""
    /\ SanitizeIdle /\ ImportIdle /\ GroupsIdle /\ SummarizeIdle
    /\ authorizeCalled = FALSE /\ exitCode = -1

\* The action up to its first await: the three checks that exit with 1, then
\* the account's credentials are asked for.
CleanStart ==
    /\ kpc = "start"
    /\ IF CleanInvalid(kopts)
       THEN kpc' = "exited" /\ exitCode' = 1 /\ authorizeCalled' = FALSE
       ELSE kpc' = "authorizing" /\ exitCode' = exitCode /\ authorizeCalled' = TRUE
    /\ UNCHANGED <<kopts, contactsData, svars, evars, ivars, gvars, uvars>>

\* auth.authorize rejects: the action's catch logs the error.
CleanAuthorizeFailed ==
    /\ kpc = "authorizing"
    /\ kpc' = "unauthorized"
    /\ UNCHANGED <<kopts, contactsData, svars, evars, ivars, gvars, uvars,
                   authorizeCalled, exitCode>>

\* The action once contactsData is known, up to its next await: cleanUrls is
\* called for --urls; without it --external-ids exits with 1 as not
\* implemented.
CleanAfterData ==
    IF kopts.urls THEN kpc' = "cleaning" /\ exitCode' = exitCode
    ELSE IF kopts.externalIds THEN kpc' = "unimplemented" /\ exitCode' = 1
    ELSE kpc' = "done" /\ exitCode' = exitCode

\* auth.authorize resolves.  With --file the file is read, which throws into
\* the action's catch when the file does not exist; without it listContacts
\* starts and sends its first request.
CleanAuthorized ==
    /\ kpc = "authorizing"
    /\ IF kopts.file
       THEN /\ IF kopts.exists
               THEN contactsData' = CleanFile /\ CleanAfterData
               ELSE /\ kpc' = "failed"
                    /\ UNCHANGED <<contactsData, exitCode>>
            /\ UNCHANGED <<requests, results, nextPageToken>>
       ELSE /\ results' = <<>>
            /\ nextPageToken' = Null
            /\ requests' = Append(requests, Null)
            /\ kpc' = "listing"
            /\ UNCHANGED <<contactsData, exitCode>>
    /\ UNCHANGED <<kopts, epc, eopts, remote, listed, contactsFile, contactsPath,
                   svars, ivars, gvars, uvars, authorizeCalled>>

\* A connections.list request of the clean's listContacts resolves.
CleanListResponse ==
    /\ kpc = "listing"
    /\ LET data == ListResponseData(remote, requests[Len(requests)])
           res == Append(results, data.connections)
       IN  /\ results' = res
           /\ nextPageToken' = data.nextPageToken
           /\ IF Truthy(data.nextPageToken)
              THEN /\ requests' = Append(requests, data.nextPageToken)
                   /\ UNCHANGED <<kpc, listed, contactsData, exitCode>>
              ELSE /\ listed' = listContactsReturn(res)
                   /\ contactsData' = listed'.val
                   /\ CleanAfterData
                   /\ UNCHANGED requests
    /\ UNCHANGED <<kopts, epc, eopts, remote, contactsFile, contactsPath, svars,
                   ivars, gvars, uvars, authorizeCalled>>

\* A connections.list request of the clean's listContacts rejects.
CleanListError ==
    /\ kpc = "listing"
    /\ listed' = listContactsOnError(results)
    /\ kpc' = "failed"
    /\ UNCHANGED <<kopts, contactsData, epc, eopts, remote, requests, results,
                   nextPageToken, contactsFile, contactsPath, svars, ivars, gvars,
                   uvars, authorizeCalled, exitCode>>

\* The awaited cleanUrls call comes back with a value: the counts are
\* printed, and --external-ids exits with 1 as not implemented.
CleanUrlsResolved ==
    /\ kpc = "cleaning"
    /\ IF kopts.externalIds THEN kpc' = "unimplemented" /\ exitCode' = 1
       ELSE kpc' = "done" /\ exitCode' = exitCode
    /\ UNCHANGED <<kopts, contactsData, svars, evars, ivars, gvars, uvars,
                   authorizeCalled>>

\* The awaited cleanUrls call throws or rejects: the action's catch logs it.
CleanUrlsRejected ==
    /\ kpc = "cleaning"
    /\ kpc' = "failed"
    /\ UNCHANGED <<kopts, contactsData, svars, evars, ivars, gvars, uvars,
                   authorizeCalled, exitCode>>

CleanNext ==
    \/ CleanStart
    \/ CleanAuthorized
    \/ CleanAuthorizeFailed
    \/ CleanListResponse
    \/ CleanListError
    \/ CleanUrlsResolved
    \/ CleanUrlsRejected

-----------------------------------------------------------------------------
(* utils summarize-data, and the command line as a whole                   *)

SummarizeOptions == { o \in [file : BOOLEAN, exists : BOOLEAN] : ~o.file => ~o.exists }

SummarizeInit ==
    /\ upc = "start"
    /\ uopts \in SummarizeOptions
    /\ SanitizeIdle /\ ExportIdle /\ ImportIdle /\ CleanIdle /\ GroupsIdle
    /\ authorizeCalled = FALSE /\ exitCode = -1

\* The whole action: the two checks that exit with 1, then the file is read
\* and its length printed.
SummarizeRun ==
    /\ upc = "start"
    /\ IF ~uopts.file \/ ~uopts.exists
       THEN upc' = "exited" /\ exitCode' = 1
       ELSE upc' = "done" /\ exitCode' = exitCode
    /\ UNCHANGED <<uopts, svars, evars, ivars, kvars, gvars, authorizeCalled>>

\* One run of the program with one of its subcommands
CliInit == ExportInit \/ ImportInit \/ CleanInit \/ GroupsInit \/ SummarizeInit

CliNext == ExportNext \/ ImportNext \/ CleanNext \/ GroupsNext \/ SummarizeRun

SpecCli == CliInit /\ [][CliNext]_vars

-----------------------------------------------------------------------------
(* Properties of processContact                                            *)

\* C8: sanitizing is idempotent: processContact applied to the record that
\* processContact returned, with the same options, returns an equal record.
C8_Idempotent == spc = "twice" => resanitized = sanitized

\* a record the first call changed in every step, sanitized twice
C8_Witness ==
    /\ spc = "twice" /\ ~resanitized.threw
    /\ HasKey(raw, "resourceName") /\ HasKey(raw, "memberships")
    /\ HasKey(raw, "organizations")
    /\ Len(Get(raw, "names").kv) = 2
    /\ Len(Get(sanitized.val, "names").kv) = 1
    /\ Get(options, "contactGroups").tp = "array"

\* The group list G of an options value: its contactGroups when that is an
\* array, and no group otherwise.
GroupList(opts) ==
    LET g == Get(opts, "contactGroups")
    IN  IF g.tp = "array" THEN Elems(g) ELSE <<>>

\* C10: the memberships of the sanitized record are the default group
\* contactGroups/myContacts followed by one entry per element of G, in order,
\* whatever memberships the input carried; only the default group when G is
\* empty or absent.
C10_Memberships ==
    (spc # "input" /\ ~sanitized.threw) =>
        LET G == GroupList(options)
            ms == Get(sanitized.val, "memberships")
        IN  /\ ms.tp = "array"
            /\ Len(ms.kv) = 1 + Len(G)
            /\ Elems(ms)[1] = Membership("contactGroups/myContacts")
            /\ \A n \in 1..Len(G) :
                 Elems(ms)[n + 1] = Membership("contactGroups/" \o G[n].s)

\* a record that carried memberships, sanitized with two groups
C10_Witness ==
    /\ spc = "once" /\ ~sanitized.threw
    /\ HasKey(raw, "memberships")
    /\ Len(GroupList(options)) = 2
    /\ GroupList(options)[1] # GroupList(options)[2]

-----------------------------------------------------------------------------
(* Properties of listContacts and contacts export                          *)

RECURSIVE AllRecords(_)
\* The records of all pages of a remote, in the order it serves them
AllRecords(pages) ==
    IF pages = <<>> THEN <<>>
    ELSE (IF Head(pages).tp = "array" THEN Head(pages).kv ELSE <<>>)
         \o AllRecords(Tail(pages))

\* C6: listContacts returns exactly the records of all pages, in the order
\* served: none lost, duplicated, reordered or added.
C6_Concatenation ==
    epc = "done" =>
        /\ ~listed.threw
        /\ Len(listed.val.kv) = Len(AllRecords(remote.pages))
        /\ \A n \in 1..Len(listed.val.kv) :
             listed.val.kv[n][2] = AllRecords(remote.pages)[n][2]

\* C7: when a page request fails, listContacts returns no records and the
\* export action writes no contacts file.
C7_FetchAborts ==
    epc = "failed" => /\ listed.threw
                      /\ listed.val = Undefined
                      /\ contactsFile = Undefined /\ contactsPath = ""

\* the third request fails after two pages with records were retrieved
C7_Witness ==
    /\ epc = "failed"
    /\ Len(requests) = 3
    /\ Len(Flat(results)) >= 2

-----------------------------------------------------------------------------
(* Properties of batchCreateContacts and contacts import                   *)

Count(seq, x) == Cardinality({k \in 1..Len(seq) : seq[k] = x})

Ceil(n, d) == (n + d - 1) \div d

RECURSIVE Concat(_)
Concat(seqs) == IF seqs = <<>> THEN <<>> ELSE Head(seqs) \o Concat(Tail(seqs))

\* C1: when batchCreateContacts returns, every batch it submitted is in
\* exactly one of the returned results and failed: in results (and not in
\* failed) when its request succeeded, in failed, as submitted, when its
\* request failed, and none is missing from both.
C1_Accounted ==
    bcc = "returned" =>
        \A k \in 1..Len(submitted) :
            LET inFailed == Count(returned.failed, submitted[k])
                inResults == Count(returned.results, CreatedData(submitted[k]))
            IN  /\ inFailed + inResults = 1
                /\ inFailed = 1 => outcome[k] = "error"
                /\ inResults = 1 => outcome[k] = "ok"

\* C2: at most one batch request is in flight at any time.
C2_OneInFlight == Cardinality(inflight) <= 1

\* The k-th batch of the sanitized records
ExpectedBatch(k) ==
    [m \in 1..Min(BATCH_SIZE, Len(processedContacts) - BATCH_SIZE * (k - 1)) |->
        processedContacts[BATCH_SIZE * (k - 1) + m]]

\* C3: a failed batch submission never aborts the write run: the run does
\* not end abnormally once a batch has been sent, batchCreateContacts
\* eventually returns, and by then every one of the ceil(n/25) batches has
\* been submitted, in order.
C3_NeverAborts ==
    /\ [](ipc = "crashed" => submitted = <<>>)
    /\ [](bcc = "returned" =>
            /\ Len(submitted) = Ceil(Len(processedContacts), BATCH_SIZE)
            /\ \A k \in 1..Len(submitted) : submitted[k] = ExpectedBatch(k))
    /\ (bcc = "running") ~> (bcc = "returned")

\* three batches, the first two of which failed, and the call returned
C3_Witness ==
    /\ bcc = "returned" /\ Len(submitted) = 3
    /\ outcome[1] = "error" /\ outcome[2] = "error"
    /\ Len(returned.failed) = 2

\* C4: the failed-contacts file holds every batch whose submission failed
\* during the run.
C4_FileHoldsFailures ==
    ipc = "done" =>
        \A k \in 1..Len(submitted) :
            outcome[k] = "error" =>
                \E j \in 1..Len(failedFile.kv) :
                    failedFile.kv[j][2] = Stringify(Arr(submitted[k]))

\* C5: the submitted batches are the sanitized records cut into contiguous
\* pieces in input order: each has 1 to 25 records, only the last may have
\* fewer than 25, and at return there are ceil(n/25) of them that together
\* are the sanitized sequence.
C5_Partition ==
    LET sent == Concat(submitted)
    IN  /\ \A k \in 1..Len(submitted) : Len(submitted[k]) \in 1..BATCH_SIZE
        /\ \A k \in 1..(Len(submitted) - 1) : Len(submitted[k]) = BATCH_SIZE
        /\ Len(sent) <= Len(processedContacts)
        /\ sent = SubSeq(processedContacts, 1, Len(sent))
        /\ bcc = "returned" =>
             /\ sent = processedContacts
             /\ Len(submitted) = Ceil(Len(processedContacts), BATCH_SIZE)

\* 53 records were submitted as batches of 25, 25 and 3
C5_Witness ==
    /\ bcc = "returned" /\ Len(processedContacts) = 53
    /\ Len(submitted) = 3
    /\ Len(submitted[1]) = 25 /\ Len(submitted[2]) = 25 /\ Len(submitted[3]) = 3

RECURSIVE NoIdentityKey(_)
\* no key named id or resourceName in v, at any depth
NoIdentityKey(v) ==
    \A n \in 1..Len(v.kv) :
        /\ v.tp = "object" => v.kv[n][1] \notin {"id", "resourceName"}
        /\ NoIdentityKey(v.kv[n][2])

\* C9: every record of every submitted batch has no top-level metadata,
\* resourceName, etag, photos or coverPhotos, and no key named id or
\* resourceName at any depth.
C9_NoIdentityFields ==
    \A k \in 1..Len(submitted) : \A m \in 1..Len(submitted[k]) :
        LET person == Get(submitted[k][m], "contactPerson")
        IN  /\ person.tp = "object"
            /\ \A f \in {"metadata", "resourceName", "etag", "photos", "coverPhotos"} :
                  ~HasKey(person, f)
            /\ NoIdentityKey(person)

\* a record that came with all the read-only fields and nested source ids
\* has been submitted
C9_Witness ==
    /\ submitted # <<>>
    /\ \A f \in {"metadata", "resourceName", "etag", "photos", "coverPhotos"} :
          HasKey(fileContacts[1], f)
    /\ ~NoIdentityKey(Get(fileContacts[1], "names"))
    /\ Get(submitted[1][1], "contactPerson") = contacts[1]

-----------------------------------------------------------------------------
(* Properties of processContact: what it keeps, what it does to its input  *)

RECURSIVE WithoutIdentity(_)
\* v with every key named id or resourceName removed, at any depth
WithoutIdentity(v) ==
    LET kept == IF v.tp = "object"
                THEN SelectSeq(v.kv, LAMBDA p : p[1] \notin {"id", "resourceName"})
                ELSE v.kv
    IN  [v EXCEPT !.kv = [n \in 1..Len(kept) |->
                             <<kept[n][1], WithoutIdentity(kept[n][2])>>]]

\* The entries of an input field whose provenance tag is CONTACT, in order
ContactEntries(field) ==
    SelectSeq(Elems(field),
              LAMBDA e : /\ HasKey(e, "metadata")
                         /\ HasKey(Get(e, "metadata"), "source")
                         /\ Get(Get(Get(e, "metadata"), "source"), "type")
                              = Str("CONTACT"))

\* The fields processContact filters, replaces or deletes at the top level
TreatedFields ==
    {"names", "emailAddresses", "memberships", "metadata", "resourceName",
     "etag", "photos", "coverPhotos", "id"}

\* C11: of a record that processContact returns, names and emailAddresses
\* hold exactly the input's entries tagged CONTACT, in the input's order
\* (each without its server identifiers); entries with another tag or none
\* are absent; every field of another kind holds all its input entries.
C11_KeepsContactEntries ==
    (spc # "input" /\ ~sanitized.threw) =>
        /\ \A f \in {"names", "emailAddresses"} :
              IF HasKey(raw, f) /\ Get(raw, f).tp = "array"
              THEN LET want == ContactEntries(Get(raw, f))
                       got == Elems(Get(sanitized.val, f))
                   IN  /\ Get(sanitized.val, f).tp = "array"
                       /\ Len(got) = Len(want)
                       /\ \A n \in 1..Len(want) : got[n] = WithoutIdentity(want[n])
              ELSE Get(sanitized.val, f) = Get(raw, f)
        /\ \A n \in 1..Len(raw.kv) :
              raw.kv[n][1] \notin TreatedFields =>
                  /\ HasKey(sanitized.val, raw.kv[n][1])
                  /\ Len(Get(sanitized.val, raw.kv[n][1]).kv) = Len(raw.kv[n][2].kv)
                  /\ Get(sanitized.val, raw.kv[n][1]) = WithoutIdentity(raw.kv[n][2])

\* a record has been sanitized whose names hold a CONTACT entry after an
\* untagged one and before none, whose only e-mail address has another tag,
\* and whose phone numbers hold an entry that is not tagged CONTACT
C11_Witness ==
    /\ spc = "once" /\ ~sanitized.threw
    /\ HasKey(raw, "names") /\ Len(Get(raw, "names").kv) = 2
    /\ SourceType(Elems(Get(raw, "names"))[1]) = Undefined
    /\ SourceType(Elems(Get(raw, "names"))[2]) = Str("CONTACT")
    /\ Len(Get(sanitized.val, "names").kv) = 1
    /\ HasKey(raw, "emailAddresses") /\ Len(Get(raw, "emailAddresses").kv) = 1
    /\ Get(sanitized.val, "emailAddresses") = Arr(<<>>)
    /\ Len(Get(sanitized.val, "phoneNumbers").kv) = 2

\* C12: processContact leaves the record it is handed as it was: after the
\* call the caller's object equals the record passed in.
C12_InputUnchanged == spc # "input" => contactData = raw

\* C13: processContact raises no error, whatever record it is handed.
C13_NeverThrows == ~sanitized.threw /\ ~resanitized.threw

-----------------------------------------------------------------------------
(* Properties of contacts import: the limit, the create calls, the delay   *)

\* The records an import with the given options is to hand on: the first
\* min(N, m) of the file's m records with --limit N, all m without a limit.
Limited(o, file) ==
    IF o.limit THEN SubSeq(file, 1, Min(o.limitArg, Len(file))) ELSE file

\* C15: the records handed to batchCreateContacts, and sanitized by it, are
\* the first min(N, m) records of the file in file order when import is run
\* with --limit N, and all m records when it is run without a limit.
C15_LimitTruncates ==
    /\ ipc = "authorizing" => contacts = Limited(iopts, fileContacts)
    /\ bcc \in {"running", "returned"} =>
          processedContacts
            = MapProcess(Limited(iopts, fileContacts), BatchOptions(iopts))

\* C16: an import without a limit that has gone through a file of n records
\* has sent exactly n create requests, the k-th carrying the k-th record and
\* nothing else, with memberships [default] followed by the groups given and
\* with no identity field.
C16_OneCallPerRecord ==
    (ipc = "done" /\ ~iopts.limit) =>
        /\ Len(submitted) = Len(fileContacts)
        /\ \A k \in 1..Len(submitted) :
              /\ Len(submitted[k]) = 1
              /\ LET person == Get(submitted[k][1], "contactPerson")
                     G == GroupList(BatchOptions(iopts))
                     ms == Get(person, "memberships")
                 IN  /\ NoIdentityKey(person)
                     /\ ms.tp = "array"
                     /\ Len(ms.kv) = 1 + Len(G)
                     /\ Elems(ms)[1] = Membership("contactGroups/myContacts")
                     /\ \A n \in 1..Len(G) :
                          Elems(ms)[n + 1] = Membership("contactGroups/" \o G[n].s)

\* C18: between the sending of any two consecutive batches one full
\* inter-batch delay goes by, whatever became of the earlier batches: every
\* timer is set to the full delay, one timer is set per batch sent, and each
\* batch after the first is sent a full delay after the one before it.
C18_DelayUnconditional ==
    /\ Len(sentAt) = Len(submitted)
    /\ ipc = "delay" => timer = INTER_BATCH_DELAY
    /\ \A k \in 1..(Len(sentAt) - 1) : sentAt[k + 1] - sentAt[k] >= INTER_BATCH_DELAY
    /\ ipc = "done" /\ sentAt # <<>> =>
          now - sentAt[Len(sentAt)] >= INTER_BATCH_DELAY

\* three batches have been sent, the first has failed, the second has
\* succeeded and the third is not answered, and the run has returned
C18_Witness ==
    /\ ipc = "done" /\ Len(sentAt) = 3
    /\ outcome = <<"error", "ok", "pending">>

-----------------------------------------------------------------------------
(* Properties of the fetching of contacts and of contact groups            *)

\* The contacts fetcher walks the cursor protocol.
ContactsWalk ==
    /\ requests # <<>> => requests[1] = Null
    /\ \A k \in 2..Len(requests) :
          LET cursor == ListResponseData(remote, requests[k - 1]).nextPageToken
          IN  Truthy(cursor) /\ requests[k] = cursor
    /\ Len(requests) <= Len(results) + 1
    /\ epc = "done" => Len(requests) = Len(remote.pages)

\* The contact-groups fetcher walks the cursor protocol.
GroupsWalk ==
    /\ grequests # <<>> => grequests[1] = Undefined
    /\ \A k \in 2..Len(grequests) :
          LET cursor == Get(GroupsResponseData(gremote, grequests[k - 1]),
                            "nextPageToken")
          IN  Truthy(cursor) /\ grequests[k] = cursor
    /\ gpc = "done" => Len(grequests) = Len(gremote)

\* C17: for contacts and for contact groups, the first request carries no
\* cursor, every later request carries the cursor of the response before it,
\* a request is sent only once the response before it has arrived, and the
\* fetch ends at the first response without a cursor, so that a fetch that
\* has ended has sent as many requests as the remote holds pages.
C17_CursorWalk == ContactsWalk /\ GroupsWalk

-----------------------------------------------------------------------------
(* Properties of the command line                                          *)

\* The subcommand that is run, its position, and whether its flags fail a
\* validation or name an input file that does not exist
Subcommands ==
    { [pc |-> epc, bad |-> ~eopts.account],
      [pc |-> ipc, bad |-> \/ ~iopts.destination
                           \/ ~iopts.file /\ ~iopts.source
                           \/ iopts.file /\ ~iopts.exists],
      [pc |-> kpc, bad |-> CleanInvalid(kopts) \/ (kopts.file /\ ~kopts.exists)],
      [pc |-> gpc, bad |-> ~gopts.account],
      [pc |-> upc, bad |-> ~uopts.file \/ ~uopts.exists] }

\* A request has been sent to the remote API
RemoteCalled == requests # <<>> \/ submitted # <<>> \/ grequests # <<>>

\* An output file has been written
FileWritten ==
    contactsFile # Undefined \/ failedFile # Undefined \/ groupsFile # Undefined

\* C14: a subcommand whose flags fail a validation or name an input file
\* that does not exist does nothing but exit with code 1: it calls for no
\* credentials, sends no request to the remote API and writes no file.
C14_FailsBeforeIO ==
    \A c \in Subcommands :
        (c.pc # "idle" /\ c.bad) =>
            /\ ~authorizeCalled /\ ~RemoteCalled /\ ~FileWritten
            /\ c.pc \in {"start", "exited"}
            /\ c.pc = "exited" => exitCode = 1

====
